---- MODULE Spec2Model ----
\* Library management service (Express + Prisma on MySQL): catalogue, rental
\* and directory-admin request handlers, modelled as concurrent requests that
\* interleave at their awaited database calls.
EXTENDS Integers, Sequences, FiniteSets, Bags, TLC

\* ---------------------------------------------------------------- bounds
NumProcs == 2        \* requests in flight at the same time
MaxTime  == 1        \* last value the wall clock reaches (seconds)
MaxRows  == 1        \* rows the author and the publisher table can hold
MaxCatalog == 16     \* books of the largest catalogue that is listed

\* ------------------------------------------------------ program constants
ITEMS_PER_PAGE == 5
DueDays        == 7
DaySeconds     == 24 * 60 * 60

NoUser == "anonymous"        \* req.user is undefined
NULL   == -1                 \* SQL NULL in a DATETIME column
SyntaxError == -1            \* BigInt() threw

\* Text of an isbn field as it arrives in a request: a string of characters.
Digits == {"0", "1", "2", "3", "4", "5", "6", "7", "8", "9"}
DigitVal(c) ==
    CASE c = "0" -> 0 [] c = "1" -> 1 [] c = "2" -> 2 [] c = "3" -> 3 [] c = "4" -> 4
      [] c = "5" -> 5 [] c = "6" -> 6 [] c = "7" -> 7 [] c = "8" -> 8 [] OTHER -> 9
Tokens == { <<"1">>, <<"0", "2">>, <<"x">> }

RECURSIVE DigitsValue(_)
DigitsValue(s) ==
    IF s = <<>> THEN 0
    ELSE 10 * DigitsValue(SubSeq(s, 1, Len(s) - 1)) + DigitVal(s[Len(s)])

\* BigInt(string): the empty string is 0n, decimal digits give their value,
\* anything else throws.
BigInt(tok) ==
    IF \A i \in 1..Len(tok) : tok[i] \in Digits THEN DigitsValue(tok) ELSE SyntaxError

VARIABLES
    user,          \* table user:       id   -> row
    author,        \* table author:     sequence of rows, the id is the position
    publisher,     \* table publisher:  sequence of rows, the id is the position
    book,          \* table book:       isbn -> row
    rental_log,    \* table rental_log: sequence of rows, the id is the position
    now,           \* wall clock, in seconds
    req,           \* the requests in flight: a bag of handlers waiting at an await
    resp           \* the response sent by the last step (op "none" when it sent none)

vars == <<user, author, publisher, book, rental_log, now, req, resp>>

Callers == DOMAIN user \cup {NoUser}

\* A handler suspended at an await: its route, the await, req.user, the parsed
\* parameter and the locals it carries over the await.
Request(op, pc, u, arg, loc) == [op |-> op, pc |-> pc, user |-> u, arg |-> arg, loc |-> loc]

InFlight == BagToSet(req)
CanArrive == BagCardinality(req) < NumProcs
Arrive(r) == req' = req (+) SetToBag({r})
Proceed(r, r2) == req' = (req (-) SetToBag({r})) (+) SetToBag({r2})
Finish(r) == req' = req (-) SetToBag({r})

NoResp == [op |-> "none", user |-> NoUser, arg |-> 0, status |-> 0, data |-> <<>>]

Response(op, u, arg, status, data) ==
    [op |-> op, user |-> u, arg |-> arg, status |-> status, data |-> data]

\* new Date(): since the last reading the clock has stayed within the same
\* second or moved into the next; MaxTime caps it.
ClockAfter(t0) == { t \in {t0, t0 + 1} : t <= MaxTime }
ClockReads == ClockAfter(now)

\* ------------------------------------------------------------- rental_log
\* findFirst({ book_isbn: isbn, returned_date: null })
ActiveRental(rows, isbn) ==
    \E i \in DOMAIN rows : rows[i].book_isbn = isbn /\ rows[i].returned_date = NULL

\* The table without its unique index: every insert is accepted.
rental_log_no_unique_index(rows, isbn) == TRUE

\* UNIQUE INDEX rental_log_book_isbn_key(book_isbn): TRUE when a row with this
\* isbn can be inserted.
rental_log_book_isbn_key(rows, isbn) ==
    \A i \in DOMAIN rows : rows[i].book_isbn # isbn

\* dueDate.setDate(dueDate.getDate() + 7)
DueOffset == DueDays * DaySeconds

\* The row written for a fixed user instead of the caller.
RentalCreate_fixed_user(rows, isbn, u, t1, t2) ==
    Append(rows, [book_isbn |-> isbn, user_id |-> "u1", checkout_date |-> t1,
                  due_date |-> t2 + DueOffset, returned_date |-> NULL])

\* prisma.rental_log.create(...): the id is generated, the row is appended.
\* The row keeps NULL in returned_date, as the handlers write and query it.
RentalCreate(rows, isbn, u, t1, t2) ==
    Append(rows, [book_isbn |-> isbn, user_id |-> u, checkout_date |-> t1,
                  due_date |-> t2 + DueOffset, returned_date |-> NULL])

\* --------------------------------------------------- POST /book/rental
\* Arrival up to the first query: login check, BigInt(book_id), book.findUnique.
PostRental_Begin ==
    /\ CanArrive
    /\ \E u \in Callers, tok \in Tokens :
         LET isbn == BigInt(tok) IN
         IF u = NoUser THEN
              /\ resp' = Response("rental", NoUser, 0, 401, <<>>)
              /\ UNCHANGED req
         ELSE IF isbn = SyntaxError THEN
              /\ resp' = Response("rental", NoUser, isbn, 400, <<>>)
              /\ UNCHANGED req
         ELSE IF isbn \notin DOMAIN book THEN
              /\ resp' = Response("rental", NoUser, isbn, 404, <<>>)
              /\ UNCHANGED req
         ELSE /\ Arrive(Request("rental", "findFirst", u, isbn, <<>>))
              /\ resp' = NoResp
    /\ UNCHANGED <<user, author, publisher, book, rental_log, now>>

\* The availability check left out: the request goes on to the insert.
PostRental_findFirst_unchecked(r) ==
    /\ r.op = "rental" /\ r.pc = "findFirst"
    /\ Proceed(r, [r EXCEPT !.pc = "create"])
    /\ resp' = NoResp
    /\ UNCHANGED <<user, author, publisher, book, rental_log, now>>

\* rental_log.findFirst for an unreturned row of this isbn.
PostRental_findFirst(r) ==
    /\ r.op = "rental" /\ r.pc = "findFirst"
    /\ IF ActiveRental(rental_log, r.arg) THEN
            /\ resp' = Response("rental", NoUser, r.arg, 409, <<>>)
            /\ Finish(r)
       ELSE /\ Proceed(r, [r EXCEPT !.pc = "create"])
            /\ resp' = NoResp
    /\ UNCHANGED <<user, author, publisher, book, rental_log, now>>

\* The two new Date() calls and rental_log.create; a rejected insert is caught
\* and answered with 500.
PostRental_create(r) ==
    /\ r.op = "rental" /\ r.pc = "create"
    /\ \E t1 \in ClockReads :
       \E t2 \in ClockAfter(t1) :
         /\ now' = t2
         /\ IF rental_log_book_isbn_key(rental_log, r.arg) THEN
                 /\ rental_log' = RentalCreate(rental_log, r.arg, r.user, t1, t2)
                 /\ resp' = Response("rental", NoUser, r.arg, 200,
                                     [id |-> Len(rental_log) + 1,
                                      checkout_date |-> t1,
                                      due_date |-> t2 + DueOffset])
            ELSE /\ UNCHANGED rental_log
                 /\ resp' = Response("rental", NoUser, r.arg, 500, <<>>)
    /\ Finish(r)
    /\ UNCHANGED <<user, author, publisher, book>>

\* --------------------------------------------------- PUT /users/return
\* The owner check left out: any logged-in caller goes on to the update.
PutReturn_Begin_anyone ==
    /\ CanArrive
    /\ \E u \in Callers, id \in 1..(Len(rental_log) + 1) :
         IF u = NoUser THEN
              /\ resp' = Response("return", u, 0, 401, <<>>)
              /\ UNCHANGED req
         ELSE IF id \notin DOMAIN rental_log THEN
              /\ resp' = Response("return", u, id, 404, <<>>)
              /\ UNCHANGED req
         ELSE /\ Arrive(Request("return", "update", u, id, <<>>))
              /\ resp' = NoResp
    /\ UNCHANGED <<user, author, publisher, book, rental_log, now>>

\* Arrival up to the update: login check, rental_log.findUnique, owner check.
PutReturn_Begin ==
    /\ CanArrive
    /\ \E u \in Callers, id \in 1..(Len(rental_log) + 1) :
         IF u = NoUser THEN
              /\ resp' = Response("return", u, 0, 401, <<>>)
              /\ UNCHANGED req
         ELSE IF id \notin DOMAIN rental_log THEN
              /\ resp' = Response("return", u, id, 404, <<>>)
              /\ UNCHANGED req
         ELSE IF rental_log[id].user_id # u THEN
              /\ resp' = Response("return", u, id, 403, <<>>)
              /\ UNCHANGED req
         ELSE /\ Arrive(Request("return", "update", u, id, <<>>))
              /\ resp' = NoResp
    /\ UNCHANGED <<user, author, publisher, book, rental_log, now>>

\* The update writing the wrong column: due_date instead of returned_date.
PutReturn_update_due(r) ==
    /\ r.op = "return" /\ r.pc = "update"
    /\ \E t \in ClockReads :
         /\ now' = t
         /\ rental_log' = [rental_log EXCEPT ![r.arg].due_date = t]
         /\ resp' = Response("return", r.user, r.arg, 200,
                             [id |-> r.arg, returned_date |-> t])
    /\ Finish(r)
    /\ UNCHANGED <<user, author, publisher, book>>

\* The update guarded by returned_date: null: a row already returned keeps its
\* timestamp.
PutReturn_update_once(r) ==
    /\ r.op = "return" /\ r.pc = "update"
    /\ \E t \in ClockReads :
         LET kept == IF rental_log[r.arg].returned_date = NULL
                     THEN t ELSE rental_log[r.arg].returned_date
         IN  /\ now' = t
             /\ rental_log' = [rental_log EXCEPT ![r.arg].returned_date = kept]
             /\ resp' = Response("return", r.user, r.arg, 200,
                                 [id |-> r.arg, returned_date |-> kept])
    /\ Finish(r)
    /\ UNCHANGED <<user, author, publisher, book>>

\* new Date() and rental_log.update({ returned_date: now }).
PutReturn_update(r) ==
    /\ r.op = "return" /\ r.pc = "update"
    /\ \E t \in ClockReads :
         /\ now' = t
         /\ rental_log' = [rental_log EXCEPT ![r.arg].returned_date = t]
         /\ resp' = Response("return", r.user, r.arg, 200,
                             [id |-> r.arg, returned_date |-> t])
    /\ Finish(r)
    /\ UNCHANGED <<user, author, publisher, book>>

\* --------------------------------------------------- GET /book/detail/:isbn
Unknown == <<"?">>           \* the placeholder name of a missing author or publisher

NameOf(table, id) == IF id \in DOMAIN table THEN table[id].name ELSE Unknown

\* Arrival up to the first query: BigInt(isbn), book.findUnique; both failures
\* are thrown with status 404.
GetDetail_Begin ==
    /\ CanArrive
    /\ \E tok \in Tokens :
         LET isbn == BigInt(tok) IN
         IF isbn = SyntaxError \/ isbn \notin DOMAIN book THEN
              /\ resp' = Response("detail", NoUser, isbn, 404, <<>>)
              /\ UNCHANGED req
         ELSE /\ Arrive(Request("detail", "read", NoUser, isbn, <<book[isbn]>>))
              /\ resp' = NoResp
    /\ UNCHANGED <<user, author, publisher, book, rental_log, now>>

\* Promise.all of author.findUnique, publisher.findUnique and
\* rental_log.findFirst, then the detail object.
GetDetail_read(r) ==
    /\ r.op = "detail" /\ r.pc = "read"
    /\ resp' = Response("detail", NoUser, r.arg, 200,
                        [title |-> r.loc[1].title,
                         author |-> NameOf(author, r.loc[1].author_id),
                         publisher |-> NameOf(publisher, r.loc[1].publisher_id),
                         is_rental |-> ActiveRental(rental_log, r.arg)])
    /\ Finish(r)
    /\ UNCHANGED <<user, author, publisher, book, rental_log, now>>

\* --------------------------------------------------- /admin: requireAdmin
\* A caller that accepts json and not html is answered with 403, any other
\* with a redirect to '/'.
Accepts == {"json", "html"}
Refusal(accept) == IF accept = "json" THEN 403 ELSE 302

\* TRUE when requireAdmin calls next(): req.user is set and its user row has
\* is_admin.
requireAdmin(u) ==
    /\ u # NoUser
    /\ u \in DOMAIN user
    /\ user[u].is_admin

\* requireAdmin reads nothing but the user table, which no handler of the
\* model writes, so a handler whose body is one query is one step, taken at
\* that query.  Refused: the answer of requireAdmin to a caller it turns away,
\* the same on every route.
Refused(u) ==
    /\ \E accept \in Accepts : resp' = Response("requireAdmin", u, 0, Refusal(accept), <<>>)
    /\ UNCHANGED <<user, author, publisher, book, rental_log, now, req>>

\* ------------------------------------------------ names, LIKE and ORDER BY
\* Columns are utf8mb4_unicode_ci: letters compare without regard to case.
CharRank(c) == CASE c \in {"a", "A"} -> 1 [] c \in {"b", "B"} -> 2 [] OTHER -> 3

\* name: { contains: keyword }, i.e. name LIKE '%keyword%'
Contains(name, keyword) ==
    \E i \in 0..(Len(name) - Len(keyword)) :
        \A j \in 1..Len(keyword) : CharRank(name[i + j]) = CharRank(keyword[j])

RECURSIVE NameLeq(_, _)
NameLeq(s, t) ==
    IF s = <<>> THEN TRUE
    ELSE IF t = <<>> THEN FALSE
    ELSE IF CharRank(s[1]) # CharRank(t[1]) THEN CharRank(s[1]) < CharRank(t[1])
    ELSE NameLeq(Tail(s), Tail(t))

\* Without the filter: every row.
AllRows(table) == DOMAIN table

\* The rows of a table that pass where: { isDeleted: false }.
NotDeleted(table) == { i \in DOMAIN table : ~ table[i].isDeleted }

\* orderBy: { name: 'asc' }; rows of equal name come in the order of their ids.
NameBefore(table, i, j) ==
    IF table[i].name = table[j].name \/ (NameLeq(table[i].name, table[j].name)
                                         /\ NameLeq(table[j].name, table[i].name))
    THEN i <= j
    ELSE NameLeq(table[i].name, table[j].name)

RECURSIVE OrderByName(_, _)
OrderByName(table, ids) ==
    IF ids = {} THEN <<>>
    ELSE LET first == CHOOSE i \in ids : \A j \in ids : NameBefore(table, i, j)
         IN  <<first>> \o OrderByName(table, ids \ {first})

RECURSIVE InIdOrder(_)
InIdOrder(ids) ==
    IF ids = {} THEN <<>>
    ELSE LET first == CHOOSE i \in ids : \A j \in ids : i <= j
         IN  <<first>> \o InIdOrder(ids \ {first})

\* select: { id: true, name: true }
IdName(table, order) == [k \in DOMAIN order |-> [id |-> order[k], name |-> table[order[k]].name]]

\* findMany({ where: { isDeleted: false, name: { contains: keyword } } })
SearchRows(table, keyword) ==
    IdName(table, InIdOrder({ i \in NotDeleted(table) : Contains(table[i].name, keyword) }))

\* findMany({ where: { isDeleted: false }, orderBy: { name: 'asc' } })
ListRows(table) ==
    LET order == OrderByName(table, NotDeleted(table))
    IN  [k \in DOMAIN order |-> [id |-> order[k], name |-> table[order[k]].name,
                                 isDeleted |-> table[order[k]].isDeleted]]

Keywords   == { <<>>, <<"a">>, <<"b">>, <<"b", "a">> }
NameInputs == { <<>>, <<"a">>, <<"A", "b">> }
Quiet == UNCHANGED <<user, author, publisher, book, rental_log, now, req>>

\* ------------------------------------------- GET /book/search/{author,publisher}
\* keyword = req.body.keyword || ''
SearchAuthor ==
    /\ \E kw \in Keywords :
         resp' = Response("author.search", NoUser, kw, 200, SearchRows(author, kw))
    /\ Quiet

SearchPublisher ==
    /\ \E kw \in Keywords :
         resp' = Response("publisher.search", NoUser, kw, 200, SearchRows(publisher, kw))
    /\ Quiet

\* POST /book/search/internal { type, keyword }
SearchTypes == {"author", "publisher", "book"}

SearchInternal ==
    /\ \E type \in SearchTypes, kw \in Keywords :
         resp' = IF type = "author"
                 THEN Response("internal.author", NoUser, kw, 200, SearchRows(author, kw))
                 ELSE IF type = "publisher"
                 THEN Response("internal.publisher", NoUser, kw, 200, SearchRows(publisher, kw))
                 ELSE Response("internal", NoUser, <<>>, 400, <<>>)
    /\ Quiet

\* ------------------------------------------------------- /admin/author
AdminListAuthor ==
    \E u \in Callers :
        IF ~ requireAdmin(u) THEN Refused(u)
        ELSE /\ resp' = Response("author.list", u, 0, 200, ListRows(author))
             /\ Quiet

\* POST: !name throws; author.create generates the id.
AdminCreateAuthor ==
    \E u \in Callers :
        IF ~ requireAdmin(u) THEN Refused(u)
        ELSE \E name \in NameInputs :
             IF name = <<>> THEN
                  /\ resp' = Response("author.create", u, 0, 400, <<>>)
                  /\ Quiet
             ELSE /\ Len(author) < MaxRows
                  /\ author' = Append(author, [name |-> name, isDeleted |-> FALSE])
                  /\ resp' = Response("author.create", u, Len(author) + 1, 200, <<>>)
                  /\ UNCHANGED <<user, publisher, book, rental_log, now, req>>

\* PUT: author.update({ where: { id }, data: { name } }) throws on a missing row.
AdminUpdateAuthor ==
    \E u \in Callers :
        IF ~ requireAdmin(u) THEN Refused(u)
        ELSE \E id \in 1..(Len(author) + 1), name \in NameInputs :
             IF id \notin DOMAIN author THEN
                  /\ resp' = Response("author.update", u, id, 400, <<>>)
                  /\ Quiet
             ELSE /\ author' = [author EXCEPT ![id].name = name]
                  /\ resp' = Response("author.update", u, id, 200, <<>>)
                  /\ UNCHANGED <<user, publisher, book, rental_log, now, req>>

\* DELETE: author.update({ where: { id }, data: { isDeleted: true } })
AdminDeleteAuthor ==
    \E u \in Callers :
        IF ~ requireAdmin(u) THEN Refused(u)
        ELSE \E id \in 1..(Len(author) + 1) :
             IF id \notin DOMAIN author THEN
                  /\ resp' = Response("author.delete", u, id, 400, <<>>)
                  /\ Quiet
             ELSE /\ author' = [author EXCEPT ![id].isDeleted = TRUE]
                  /\ resp' = Response("author.delete", u, id, 200, <<>>)
                  /\ UNCHANGED <<user, publisher, book, rental_log, now, req>>

\* ---------------------------------------------------- /admin/publisher
AdminListPublisher ==
    \E u \in Callers :
        IF ~ requireAdmin(u) THEN Refused(u)
        ELSE /\ resp' = Response("publisher.list", u, 0, 200, ListRows(publisher))
             /\ Quiet

AdminCreatePublisher ==
    \E u \in Callers :
        IF ~ requireAdmin(u) THEN Refused(u)
        ELSE \E name \in NameInputs :
             IF name = <<>> THEN
                  /\ resp' = Response("publisher.create", u, 0, 400, <<>>)
                  /\ Quiet
             ELSE /\ Len(publisher) < MaxRows
                  /\ publisher' = Append(publisher, [name |-> name, isDeleted |-> FALSE])
                  /\ resp' = Response("publisher.create", u, Len(publisher) + 1, 200, <<>>)
                  /\ UNCHANGED <<user, author, book, rental_log, now, req>>

AdminUpdatePublisher ==
    \E u \in Callers :
        IF ~ requireAdmin(u) THEN Refused(u)
        ELSE \E id \in 1..(Len(publisher) + 1), name \in NameInputs :
             IF id \notin DOMAIN publisher THEN
                  /\ resp' = Response("publisher.update", u, id, 400, <<>>)
                  /\ Quiet
             ELSE /\ publisher' = [publisher EXCEPT ![id].name = name]
                  /\ resp' = Response("publisher.update", u, id, 200, <<>>)
                  /\ UNCHANGED <<user, author, book, rental_log, now, req>>

AdminDeletePublisher ==
    \E u \in Callers :
        IF ~ requireAdmin(u) THEN Refused(u)
        ELSE \E id \in 1..(Len(publisher) + 1) :
             IF id \notin DOMAIN publisher THEN
                  /\ resp' = Response("publisher.delete", u, id, 400, <<>>)
                  /\ Quiet
             ELSE /\ publisher' = [publisher EXCEPT ![id].isDeleted = TRUE]
                  /\ resp' = Response("publisher.delete", u, id, 200, <<>>)
                  /\ UNCHANGED <<user, author, book, rental_log, now, req>>

\* --------------------------------------------------- DELETE /admin/book
\* BigInt(isbn) and book.update({ isDeleted: true }); a throw is answered 400.
\* The row removed instead of flagged.
AdminDeleteBook_hard ==
    \E u \in Callers :
        IF ~ requireAdmin(u) THEN Refused(u)
        ELSE \E tok \in Tokens :
             LET isbn == BigInt(tok) IN
             IF isbn = SyntaxError \/ isbn \notin DOMAIN book THEN
                  /\ resp' = Response("book.delete", u, isbn, 400, <<>>)
                  /\ Quiet
             ELSE /\ book' = [i \in DOMAIN book \ {isbn} |-> book[i]]
                  /\ resp' = Response("book.delete", u, isbn, 200, <<>>)
                  /\ UNCHANGED <<user, author, publisher, rental_log, now, req>>

AdminDeleteBook ==
    \E u \in Callers :
        IF ~ requireAdmin(u) THEN Refused(u)
        ELSE \E tok \in Tokens :
             LET isbn == BigInt(tok) IN
             IF isbn = SyntaxError \/ isbn \notin DOMAIN book THEN
                  /\ resp' = Response("book.delete", u, isbn, 400, <<>>)
                  /\ Quiet
             ELSE /\ book' = [book EXCEPT ![isbn].isDeleted = TRUE]
                  /\ resp' = Response("book.delete", u, isbn, 200, <<>>)
                  /\ UNCHANGED <<user, author, publisher, rental_log, now, req>>

\* --------------------------------------------------- GET /book/list/:page?
NaN == -1000000              \* parseInt found no number

PageTokens == { <<>>, <<"0">>, <<"-", "1">>, <<"1">>, <<"2">>, <<"3">>, <<"4">>,
                <<"x">>, <<"2", "x">> }

RECURSIVE DigitPrefix(_)
DigitPrefix(s) ==
    IF s = <<>> \/ s[1] \notin Digits THEN <<>> ELSE <<s[1]>> \o DigitPrefix(Tail(s))

\* parseInt(string, 10): an optional sign, then the leading decimal digits;
\* NaN when there is none.
parseInt(tok) ==
    LET signed == tok # <<>> /\ tok[1] \in {"-", "+"}
        digits == DigitPrefix(IF signed THEN Tail(tok) ELSE tok)
    IN  IF digits = <<>> THEN NaN
        ELSE IF signed /\ tok[1] = "-" THEN 0 - DigitsValue(digits)
        ELSE DigitsValue(digits)

DigitChar(d) ==
    CASE d = 0 -> "0" [] d = 1 -> "1" [] d = 2 -> "2" [] d = 3 -> "3" [] d = 4 -> "4"
      [] d = 5 -> "5" [] d = 6 -> "6" [] d = 7 -> "7" [] d = 8 -> "8" [] OTHER -> "9"

\* book.isbn.toString()
RECURSIVE toString(_)
toString(n) ==
    IF n < 10 THEN <<DigitChar(n)>> ELSE toString(n \div 10) \o <<DigitChar(n % 10)>>

\* Math.ceil(totalCount / ITEMS_PER_PAGE) rounded down instead of up.
LastPageFloor(totalCount) ==
    IF totalCount \div ITEMS_PER_PAGE = 0 THEN 1 ELSE totalCount \div ITEMS_PER_PAGE

\* Math.ceil(totalCount / ITEMS_PER_PAGE) || 1
LastPage(totalCount) ==
    LET ceil == (totalCount + ITEMS_PER_PAGE - 1) \div ITEMS_PER_PAGE
    IN  IF ceil = 0 THEN 1 ELSE ceil

\* orderBy: [{ publication_year: 'desc' }, { publication_month: 'desc' }]; rows
\* equal in both come in the order of the index on isbn.
BookBefore(bk, i, j) ==
    \/ bk[i].publication_year > bk[j].publication_year
    \/ /\ bk[i].publication_year = bk[j].publication_year
       /\ bk[i].publication_month > bk[j].publication_month
    \/ /\ bk[i].publication_year = bk[j].publication_year
       /\ bk[i].publication_month = bk[j].publication_month
       /\ i <= j

RECURSIVE OrderByYearMonth(_, _)
OrderByYearMonth(bk, ids) ==
    IF ids = {} THEN <<>>
    ELSE LET first == CHOOSE i \in ids : \A j \in ids : BookBefore(bk, i, j)
         IN  <<first>> \o OrderByYearMonth(bk, ids \ {first})

\* findMany({ take, skip }) on the ordered rows
SkipTake(order, skip, take) ==
    SubSeq(order, skip + 1, IF skip + take < Len(order) THEN skip + take ELSE Len(order))

UnknownAuthor == <<"?", "?">>      \* the placeholder of the list for a missing author

\* One entry of books: isbn as text, title, author name, "year.month".
ListItem(bk, isbn) ==
    [isbn |-> toString(isbn), title |-> bk[isbn].title,
     author |-> IF bk[isbn].author_id \in DOMAIN author
                THEN author[bk[isbn].author_id].name ELSE UnknownAuthor,
     publication_year_month |-> <<bk[isbn].publication_year, bk[isbn].publication_month>>]

\* Arrival up to the page query: parseInt of the page, book.count, the clamp
\* of currentPage into 1..lastPage.
handleListRequest_Begin ==
    /\ CanArrive
    /\ \E tok \in PageTokens :
         LET pageParam == IF tok = <<>> THEN <<"1">> ELSE tok
             page == parseInt(pageParam)
             totalCount == Cardinality(NotDeleted(book))
             lastPage == LastPage(totalCount)
             atLeast1 == IF page = NaN \/ page < 1 THEN 1 ELSE page
             currentPage == IF atLeast1 > lastPage THEN lastPage ELSE atLeast1
         IN  Arrive(Request("list", "findMany", NoUser, page, <<currentPage, lastPage>>))
    /\ resp' = NoResp
    /\ UNCHANGED <<user, author, publisher, book, rental_log, now>>

\* book.findMany of the page, the author lookup of each row, the answer.
handleListRequest_findMany(r) ==
    /\ r.op = "list" /\ r.pc = "findMany"
    /\ LET currentPage == r.loc[1]
           booksRaw == SkipTake(OrderByYearMonth(book, NotDeleted(book)),
                                (currentPage - 1) * ITEMS_PER_PAGE, ITEMS_PER_PAGE)
       IN  resp' = Response("list", NoUser, r.arg, 200,
                            [current |-> currentPage, last_page |-> r.loc[2],
                             books |-> [k \in DOMAIN booksRaw |-> ListItem(book, booksRaw[k])]])
    /\ Finish(r)
    /\ UNCHANGED <<user, author, publisher, book, rental_log, now>>

\* ------------------------------------------------------- /admin/book
Titles     == {"", "t"}              \* req.body.title of a create
YearToken  == <<"2", "0", "0", "2">> \* req.body.publication_year
MonthToken == <<"3">>                \* req.body.publication_month

\* UNIQUE INDEX book_isbn_key(isbn): TRUE when a row with this isbn can be
\* inserted; a soft-deleted row holds its isbn like any other.
book_isbn_key(bk, isbn) == isbn \notin DOMAIN bk

\* prisma.book.create(...): isDeleted takes its default.
BookCreate(bk, isbn, title) ==
    bk @@ (isbn :> [title |-> title, author_id |-> 1, publisher_id |-> 1,
                    publication_year |-> parseInt(YearToken),
                    publication_month |-> parseInt(MonthToken),
                    isDeleted |-> FALSE])

\* POST, up to the insert: requireAdmin, the required fields, BigInt(isbn),
\* book.findUnique and the test of the row it found.
AdminCreateBook_Begin ==
    /\ CanArrive
    /\ \E u \in Callers :
         IF ~ requireAdmin(u) THEN Refused(u)
         ELSE \E tok \in Tokens, title \in Titles :
              LET isbn == BigInt(tok) IN
              IF title = "" THEN
                   /\ resp' = Response("book.create", u, 0, 400, "required")
                   /\ Quiet
              ELSE IF isbn = SyntaxError THEN
                   /\ resp' = Response("book.create", u, isbn, 400, "isbn")
                   /\ Quiet
              ELSE IF isbn \in DOMAIN book /\ ~ book[isbn].isDeleted THEN
                   /\ resp' = Response("book.create", u, isbn, 400, "registered")
                   /\ Quiet
              ELSE /\ Arrive(Request("book.create", "create", u, isbn, <<title>>))
                   /\ resp' = NoResp
                   /\ UNCHANGED <<user, author, publisher, book, rental_log, now>>

\* book.create; a rejected insert is caught and answered with 400.
AdminCreateBook_create(r) ==
    /\ r.op = "book.create" /\ r.pc = "create"
    /\ IF book_isbn_key(book, r.arg) THEN
            /\ book' = BookCreate(book, r.arg, r.loc[1])
            /\ resp' = Response("book.create", r.user, r.arg, 200, "ok")
       ELSE /\ UNCHANGED book
            /\ resp' = Response("book.create", r.user, r.arg, 400, "failed")
    /\ Finish(r)
    /\ UNCHANGED <<user, author, publisher, rental_log, now>>

\* PUT: BigInt(isbn) and book.update of every column but isDeleted; a throw of
\* either is answered with 400.
AdminUpdateBook ==
    \E u \in Callers :
        IF ~ requireAdmin(u) THEN Refused(u)
        ELSE \E tok \in Tokens :
             LET isbn == BigInt(tok) IN
             IF isbn = SyntaxError \/ isbn \notin DOMAIN book THEN
                  /\ resp' = Response("book.update", u, isbn, 400, <<>>)
                  /\ Quiet
             ELSE /\ book' = [book EXCEPT ![isbn] =
                                [@ EXCEPT !.title = "u", !.author_id = 1, !.publisher_id = 1,
                                          !.publication_year = parseInt(YearToken),
                                          !.publication_month = parseInt(MonthToken)]]
                  /\ resp' = Response("book.update", u, isbn, 200, <<>>)
                  /\ UNCHANGED <<user, author, publisher, rental_log, now, req>>

\* ------------------------------------- GET /users/history, GET /users/return
BookUnknown == "?"           \* the placeholder title of a missing book

TitleOf(isbn) == IF isbn \in DOMAIN book THEN book[isbn].title ELSE BookUnknown

Perms(ids) ==
    { s \in [1..Cardinality(ids) -> ids] :
        \A i, j \in 1..Cardinality(ids) : i # j => s[i] # s[j] }

\* orderBy: { checkout_date }: every order of the rows the sort allows; rows of
\* equal checkout_date come in any order.
ByCheckout(rows, ids, desc) ==
    { s \in Perms(ids) :
        \A k \in 1..(Len(s) - 1) :
            IF desc THEN rows[s[k]].checkout_date >= rows[s[k + 1]].checkout_date
            ELSE rows[s[k]].checkout_date <= rows[s[k + 1]].checkout_date }

\* where: { user_id }
HistoryOf(rows, u) == { i \in DOMAIN rows : rows[i].user_id = u }

\* Without the returned_date condition.
PendingOf_all(rows, u) == { i \in DOMAIN rows : rows[i].user_id = u }

\* where: { user_id, returned_date: { equals: null } }
PendingOf(rows, u) ==
    { i \in DOMAIN rows : rows[i].user_id = u /\ rows[i].returned_date = NULL }

HistoryItem(rows, id) ==
    [id |-> id, isbn |-> toString(rows[id].book_isbn), name |-> TitleOf(rows[id].book_isbn),
     checkout_date |-> rows[id].checkout_date, due_date |-> rows[id].due_date,
     returned_date |-> rows[id].returned_date]

RentalItem(rows, id) ==
    [id |-> id, isbn |-> toString(rows[id].book_isbn), title |-> TitleOf(rows[id].book_isbn),
     checkout_date |-> rows[id].checkout_date, due_date |-> rows[id].due_date]

\* rental_log.findMany of the caller's rows, newest checkout first, and the
\* title of each row's book.  The titles are read after the rows; no handler
\* running beside this one writes a title, so the handler is one step, taken
\* at findMany.
GetHistory ==
    /\ \E u \in Callers :
         IF u = NoUser THEN resp' = Response("history", u, 0, 401, <<>>)
         ELSE \E order \in ByCheckout(rental_log, HistoryOf(rental_log, u), TRUE) :
                resp' = Response("history", u, 0, 200,
                                 [k \in DOMAIN order |-> HistoryItem(rental_log, order[k])])
    /\ Quiet

\* GET /users/return: the caller's unreturned rows, oldest checkout first; an
\* anonymous caller is redirected to the login page.
GetReturn ==
    /\ \E u \in Callers :
         IF u = NoUser THEN resp' = Response("pending", u, 0, 302, <<>>)
         ELSE \E order \in ByCheckout(rental_log, PendingOf(rental_log, u), FALSE) :
                resp' = Response("pending", u, 0, 200,
                                 [k \in DOMAIN order |-> RentalItem(rental_log, order[k])])
    /\ Quiet

\* ------------------------------------------------------------ the service
UserRows ==
    [u1 |-> [is_admin |-> TRUE,  isDeleted |-> FALSE],
     u2 |-> [is_admin |-> FALSE, isDeleted |-> FALSE],
     u3 |-> [is_admin |-> TRUE,  isDeleted |-> TRUE]]

BookRow(t, a, pb, y, m) ==
    [title |-> t, author_id |-> a, publisher_id |-> pb,
     publication_year |-> y, publication_month |-> m, isDeleted |-> FALSE]

\* The rental desk: one book on the shelf, nothing lent yet; an admin and a
\* plain user hold sessions.
Shelf == {1}
DeskUsers == {"u1", "u2"}

Init ==
    /\ user = [u \in DeskUsers |-> UserRows[u]]
    /\ author = << [name |-> <<"a">>, isDeleted |-> FALSE] >>
    /\ publisher = << [name |-> <<"b">>, isDeleted |-> FALSE] >>
    /\ book = [i \in Shelf |-> BookRow("t", 1, 1, 2000 + i, 1)]
    /\ rental_log = <<>>
    /\ now = 0
    /\ req = EmptyBag
    /\ resp = NoResp

Next ==
    \/ PostRental_Begin
    \/ PutReturn_Begin
    \/ GetDetail_Begin
    \/ AdminDeleteBook
    \/ \E r \in InFlight :
          \/ PostRental_findFirst(r)
          \/ PostRental_create(r)
          \/ PutReturn_update(r)
          \/ GetDetail_read(r)

Spec == Init /\ [][Next]_vars

\* The directory office: authors and publishers are created, renamed, deleted
\* and searched; the book on the shelf names author 1 and publisher 1.
InitAdmin ==
    /\ user = UserRows
    /\ author = <<>>
    /\ publisher = <<>>
    /\ book = [i \in Shelf |-> BookRow("t", 1, 1, 2000 + i, 1)]
    /\ rental_log = <<>>
    /\ now = 0
    /\ req = EmptyBag
    /\ resp = NoResp

NextAdmin ==
    \/ SearchAuthor
    \/ SearchPublisher
    \/ SearchInternal
    \/ AdminListAuthor
    \/ AdminCreateAuthor
    \/ AdminUpdateAuthor
    \/ AdminDeleteAuthor
    \/ AdminListPublisher
    \/ AdminCreatePublisher
    \/ AdminUpdatePublisher
    \/ AdminDeletePublisher
    \/ AdminDeleteBook

SpecAdmin == InitAdmin /\ [][NextAdmin]_vars

\* The reading room: a catalogue of up to MaxCatalog books, every fourth of
\* them soft-deleted, is listed page by page.
CatalogRow(i) ==
    [title |-> "t", author_id |-> 1 + (i % 2), publisher_id |-> 1,
     publication_year |-> 2000 + (i % 3), publication_month |-> 1 + ((5 * i) % 4),
     isDeleted |-> (i % 4 = 0)]

InitList ==
    /\ user = UserRows
    /\ author = << [name |-> <<"a">>, isDeleted |-> FALSE] >>
    /\ publisher = << [name |-> <<"b">>, isDeleted |-> FALSE] >>
    /\ \E m \in 0..MaxCatalog : book = [i \in 1..m |-> CatalogRow(i)]
    /\ rental_log = <<>>
    /\ now = 0
    /\ req = EmptyBag
    /\ resp = NoResp

NextList ==
    \/ handleListRequest_Begin
    \/ \E r \in InFlight : handleListRequest_findMany(r)

SpecList == InitList /\ [][NextList]_vars

\* The catalogue office: books are registered, changed and soft-deleted, the
\* author and the publisher of the shelf's book can be deleted; the book may
\* already be lent to u2.
LentRow ==
    [book_isbn |-> 1, user_id |-> "u2", checkout_date |-> 0,
     due_date |-> DueOffset, returned_date |-> NULL]

InitCatalog ==
    /\ user = [u \in DeskUsers |-> UserRows[u]]
    /\ author = << [name |-> <<"a">>, isDeleted |-> FALSE] >>
    /\ publisher = << [name |-> <<"b">>, isDeleted |-> FALSE] >>
    /\ book = [i \in Shelf |-> BookRow("t", 1, 1, 2000 + i, 1)]
    /\ rental_log \in { <<>>, <<LentRow>> }
    /\ now = 0
    /\ req = EmptyBag
    /\ resp = NoResp

NextCatalog ==
    \/ AdminCreateBook_Begin
    \/ AdminUpdateBook
    \/ AdminDeleteBook
    \/ AdminDeleteAuthor
    \/ AdminDeletePublisher
    \/ \E r \in InFlight : AdminCreateBook_create(r)

SpecCatalog == InitCatalog /\ [][NextCatalog]_vars

\* The returns counter: four books were lent, the first has come back; the
\* borrowers look at their history and their pending returns and bring books
\* back.
LedgerRow(isbn, u, t, returned) ==
    [book_isbn |-> isbn, user_id |-> u, checkout_date |-> t,
     due_date |-> t + DueOffset, returned_date |-> returned]

Ledger ==
    << LedgerRow(1, "u1", 0, 0), LedgerRow(2, "u2", 0, NULL),
       LedgerRow(3, "u1", 0, NULL), LedgerRow(4, "u1", 1, NULL) >>

InitLedger ==
    /\ user = [u \in DeskUsers |-> UserRows[u]]
    /\ author = << [name |-> <<"a">>, isDeleted |-> FALSE] >>
    /\ publisher = << [name |-> <<"b">>, isDeleted |-> FALSE] >>
    /\ book = [i \in 1..Len(Ledger) |-> BookRow("t", 1, 1, 2000 + i, 1)]
    /\ rental_log = Ledger
    /\ now = 1
    /\ req = EmptyBag
    /\ resp = NoResp

NextLedger ==
    \/ GetHistory
    \/ GetReturn
    \/ PutReturn_Begin
    \/ \E r \in InFlight : PutReturn_update(r)

SpecLedger == InitLedger /\ [][NextLedger]_vars

\* The reading room while the catalogue office works: books are soft-deleted
\* and registered between the two reads of a list request.
NextListRace ==
    \/ handleListRequest_Begin
    \/ AdminDeleteBook
    \/ AdminCreateBook_Begin
    \/ \E r \in InFlight :
          \/ handleListRequest_findMany(r)
          \/ AdminCreateBook_create(r)

SpecListRace == InitList /\ [][NextListRace]_vars

\* ================================================================ claims
\* Vocabulary of the claims, kept apart from the definitions of the handlers.
Isbns == { BigInt(tok) : tok \in Tokens } \ {SyntaxError}
OpenRows(rows, isbn) ==
    { i \in DOMAIN rows : rows[i].book_isbn = isbn /\ rows[i].returned_date = NULL }
IsOut(rows, isbn) == OpenRows(rows, isbn) # {}
Stepped(r) == CopiesIn(r, req') < CopiesIn(r, req)
Arrived(r) == CopiesIn(r, req') > CopiesIn(r, req)

\* C1: in every reachable state, whatever the interleaving of checkout and
\* returnBook requests, each isbn has at most one rental_log row whose
\* returned_date is null.
C1_Availability ==
    \A isbn \in Isbns : Cardinality(OpenRows(rental_log, isbn)) <= 1

\* Two checkouts of one isbn both passed the availability check and one of
\* them has inserted its row.
C1_Witness ==
    \E r \in InFlight :
        /\ r.op = "rental" /\ r.pc = "create"
        /\ IsOut(rental_log, r.arg)

\* C2: while a rental of isbn is open (after a successful checkout, before its
\* return), getBookDetail(isbn) answers 200 with is_rental true, and a checkout
\* of that isbn by any logged-in user is answered 409 and inserts no row.
C2_Step ==
    /\ \A r \in InFlight :
         ( /\ r.op = "rental" /\ r.pc = "findFirst"
           /\ IsOut(rental_log, r.arg)
           /\ Stepped(r) )
         => ( /\ resp'.op = "rental" /\ resp'.status = 409
              /\ resp'.arg = r.arg
              /\ rental_log' = rental_log )
    /\ ( resp'.op = "rental" /\ resp'.status \in {400, 404} )
         => ~ IsOut(rental_log, resp'.arg)
    /\ ( resp'.op = "detail" /\ IsOut(rental_log', resp'.arg) )
         => ( resp'.status = 200 /\ resp'.data.is_rental = TRUE )

C2_CheckedOut == [][C2_Step]_vars

\* A checkout was answered 409 while the rental of its isbn is open.
C2_Witness ==
    /\ resp.op = "rental" /\ resp.status = 409
    /\ \E i \in OpenRows(rental_log, resp.arg) : TRUE

\* C3: after a successful returnBook by the owner of the rental,
\* getBookDetail(isbn).is_rental is false for the isbn of that rental, and it
\* stays false until a checkout of that isbn succeeds.
C3_Step ==
    /\ ( resp'.op = "return" /\ resp'.status = 200 )
         => ~ IsOut(rental_log', rental_log'[resp'.arg].book_isbn)
    /\ ( resp'.op = "detail" /\ resp'.status = 200 )
         => ( resp'.data.is_rental = IsOut(rental_log', resp'.arg) )
    /\ \A isbn \in Isbns :
         ( ~ IsOut(rental_log, isbn) /\ IsOut(rental_log', isbn) )
         => ( resp'.op = "rental" /\ resp'.status = 200 /\ resp'.arg = isbn )

C3_Returned == [][C3_Step]_vars

\* A detail request answered is_rental false for a book whose rental was returned.
C3_Witness ==
    /\ resp.op = "detail" /\ resp.status = 200 /\ resp.data.is_rental = FALSE
    /\ \E i \in DOMAIN rental_log :
         rental_log[i].book_isbn = resp.arg /\ rental_log[i].returned_date # NULL

\* C4: after user A's checkout and return of isbn, a checkout of that isbn by
\* another user B succeeds with 200 and inserts a new open row, the earlier
\* row staying in the log.
C4_Step ==
    \A r \in InFlight :
      ( /\ r.op = "rental" /\ r.pc = "create"
        /\ ~ IsOut(rental_log, r.arg)
        /\ \E i \in DOMAIN rental_log :
             /\ rental_log[i].book_isbn = r.arg
             /\ rental_log[i].user_id # r.user
        /\ Stepped(r) )
      => ( /\ resp'.op = "rental" /\ resp'.status = 200
           /\ Len(rental_log') = Len(rental_log) + 1
           /\ SubSeq(rental_log', 1, Len(rental_log)) = rental_log
           /\ rental_log'[Len(rental_log')].book_isbn = r.arg
           /\ rental_log'[Len(rental_log')].user_id = r.user
           /\ rental_log'[Len(rental_log')].returned_date = NULL )

C4_RentAgain == [][C4_Step]_vars

\* C5: for an isbn without a book row or with a soft-deleted book row,
\* getBookDetail and checkout by a logged-in user are answered 404 and no
\* rental_log row is inserted: such a request never gets past the book lookup.
Missing(isbn) == isbn \notin DOMAIN book \/ book[isbn].isDeleted

C5_Step ==
    /\ \A r \in BagToSet(req') :
         ( Arrived(r) /\ r.pc \in {"findFirst", "read"} ) => ~ Missing(r.arg)
    /\ ( /\ resp'.op \in {"rental", "detail"}
         /\ resp'.status \notin {400, 401}
         /\ Missing(resp'.arg) /\ book' = book )
         => ( resp'.status = 404 /\ rental_log' = rental_log )

C5_NotFound == [][C5_Step]_vars

\* C6: returnBook is answered 404 when no row has the id and 403 when the row
\* belongs to another user; in both cases no rental_log row is modified, and
\* only the owner of a row ever reaches its update.
C6_Step ==
    /\ ( resp'.op = "return" /\ resp'.user # NoUser )
         => /\ ( resp'.arg \notin DOMAIN rental_log ) => resp'.status = 404
            /\ ( /\ resp'.arg \in DOMAIN rental_log
                 /\ rental_log[resp'.arg].user_id # resp'.user ) => resp'.status = 403
    /\ ( resp'.op = "return" /\ resp'.status \in {403, 404} )
         => rental_log' = rental_log
    /\ \A r \in BagToSet(req') :
         r.op = "return" => rental_log'[r.arg].user_id = r.user
    /\ \A i \in DOMAIN rental_log :
         rental_log'[i].returned_date # rental_log[i].returned_date
         => ( resp'.op = "return" /\ resp'.status = 200 /\ resp'.arg = i
              /\ resp'.user = rental_log[i].user_id )

C6_ReturnRefused == [][C6_Step]_vars

\* A returnBook by a user who does not own the row was answered 403.
C6_Witness ==
    /\ resp.op = "return" /\ resp.status = 403
    /\ resp.arg \in DOMAIN rental_log
    /\ rental_log[resp.arg].user_id # resp.user

\* C7: every rental_log row has due_date = checkout_date + 7 days.
C7_DueDate ==
    \A i \in DOMAIN rental_log :
        rental_log[i].due_date = rental_log[i].checkout_date + DueOffset

\* ---------------------------------------------------------------------------
AdminBodyOps ==
    { "author.list", "author.create", "author.update", "author.delete",
      "publisher.list", "publisher.create", "publisher.update", "publisher.delete",
      "book.delete" }

\* C8: every admin operation called by a caller that is anonymous, soft-deleted
\* or not an admin answers 403 and leaves author, publisher and book as they
\* were; only an authenticated, non-deleted admin reaches the body of an
\* operation.
C8_Step ==
    /\ resp'.op \in AdminBodyOps =>
         /\ resp'.user \in DOMAIN user
         /\ user[resp'.user].is_admin
         /\ ~ user[resp'.user].isDeleted
    /\ resp'.op = "requireAdmin" =>
         /\ resp'.status = 403
         /\ author' = author /\ publisher' = publisher /\ book' = book

C8_AdminOnly == [][C8_Step]_vars

\* ---------------------------------------------------------------------------
LiveBooks == { i \in DOMAIN book : ~ book[i].isDeleted }

\* Books that come strictly before b by (year desc, month desc), and books
\* that do not come after it.
StrictlyAhead(b) ==
    { c \in LiveBooks :
        \/ book[c].publication_year > book[b].publication_year
        \/ /\ book[c].publication_year = book[b].publication_year
           /\ book[c].publication_month > book[b].publication_month }

NotBehind(b) ==
    { c \in LiveBooks :
        \/ book[c].publication_year > book[b].publication_year
        \/ /\ book[c].publication_year = book[b].publication_year
           /\ book[c].publication_month >= book[b].publication_month }

\* C9: with N non-deleted books, the list of page p (any integer) answers
\* last_page = max(1, ceil(N/5)), current = p clamped into 1..last_page, and as
\* books the positions 5*(current-1)+1 .. 5*current of the non-deleted books
\* in the order year descending, month descending.
C9_Pagination ==
    (resp.op = "list" /\ resp.arg # NaN) =>
        LET N     == Cardinality(LiveBooks)
            p     == resp.arg
            last  == resp.data.last_page
            cur   == resp.data.current
            items == resp.data.books
            rest  == N - ITEMS_PER_PAGE * (cur - 1)
        IN  /\ last >= 1
            /\ ITEMS_PER_PAGE * last >= N
            /\ last > 1 => ITEMS_PER_PAGE * (last - 1) < N
            /\ cur = IF p < 1 THEN 1 ELSE IF p > last THEN last ELSE p
            /\ Len(items) = IF rest < 0 THEN 0
                            ELSE IF rest > ITEMS_PER_PAGE THEN ITEMS_PER_PAGE ELSE rest
            /\ \A k \in DOMAIN items :
                 LET b   == BigInt(items[k].isbn)
                     pos == ITEMS_PER_PAGE * (cur - 1) + k
                 IN  /\ b \in LiveBooks
                     /\ Cardinality(StrictlyAhead(b)) < pos
                     /\ pos <= Cardinality(NotBehind(b))
            /\ \A k, l \in DOMAIN items : items[k].isbn = items[l].isbn => k = l

\* Twelve non-deleted books, page 4 asked: the answer is page 3 of 3 with the
\* last two books.
C9_Witness ==
    /\ resp.op = "list" /\ resp.arg = 4
    /\ Cardinality(LiveBooks) = 12
    /\ resp.data.current = 3 /\ resp.data.last_page = 3
    /\ Len(resp.data.books) = 2

\* ---------------------------------------------------------------------------
AuthorResults    == {"author.search", "internal.author", "author.list"}
PublisherResults == {"publisher.search", "internal.publisher", "publisher.list"}

\* C10: no soft-deleted author or publisher is among the rows a search or an
\* admin list returns, and deleting an author or a publisher leaves author_id
\* and publisher_id of every book as they were.
C10_Step ==
    /\ (resp'.op \in AuthorResults /\ resp'.status = 200) =>
         \A k \in DOMAIN resp'.data :
             /\ resp'.data[k].id \in DOMAIN author'
             /\ ~ author'[resp'.data[k].id].isDeleted
    /\ (resp'.op \in PublisherResults /\ resp'.status = 200) =>
         \A k \in DOMAIN resp'.data :
             /\ resp'.data[k].id \in DOMAIN publisher'
             /\ ~ publisher'[resp'.data[k].id].isDeleted
    /\ resp'.op \in {"author.delete", "publisher.delete"} =>
         /\ DOMAIN book' = DOMAIN book
         /\ \A isbn \in DOMAIN book :
              /\ book'[isbn].author_id = book[isbn].author_id
              /\ book'[isbn].publisher_id = book[isbn].publisher_id

C10_DeletedHidden == [][C10_Step]_vars

\* A search whose keyword the name of the soft-deleted author 1 contains, while
\* a book still carries author_id 1.
C10_Witness ==
    /\ resp.op = "author.search" /\ resp.status = 200
    /\ 1 \in DOMAIN author /\ author[1].isDeleted
    /\ Contains(author[1].name, resp.arg)
    /\ \E isbn \in DOMAIN book : book[isbn].author_id = 1

\* ---------------------------------------------------------------------------
LiveBook(bk, isbn) == isbn \in DOMAIN bk /\ ~ bk[isbn].isDeleted

\* C11: a book create by an admin with well-formed fields is rejected exactly
\* when a non-deleted book with that isbn exists; with the isbn of a
\* soft-deleted book it succeeds and leaves a non-deleted book with that isbn.
C11_Step ==
    (resp'.op = "book.create" /\ resp'.data \notin {"required", "isbn"}) =>
        /\ (resp'.status # 200) <=> LiveBook(book, resp'.arg)
        /\ resp'.status = 200 => LiveBook(book', resp'.arg)

C11_CreateConflict == [][C11_Step]_vars

\* ---------------------------------------------------------------------------
\* C12: rental rows are inserted only by a successful checkout, are never
\* deleted, and each row changes once: its returned_date goes from null to a
\* timestamp in a return and is never written again.
C12_Step ==
    /\ Len(rental_log') >= Len(rental_log)
    /\ Len(rental_log') > Len(rental_log) =>
         /\ Len(rental_log') = Len(rental_log) + 1
         /\ resp'.op = "rental" /\ resp'.status = 200
    /\ \A i \in DOMAIN rental_log :
         rental_log'[i] # rental_log[i] =>
             /\ resp'.op = "return" /\ resp'.status = 200
             /\ rental_log[i].returned_date = NULL
             /\ rental_log'[i].returned_date # NULL
             /\ rental_log'[i] = [rental_log[i] EXCEPT !.returned_date = rental_log'[i].returned_date]

C12_Lifecycle == [][C12_Step]_vars

\* ---------------------------------------------------------------------------
\* C13: a return by the owner of a row that is already returned is answered
\* 200 and overwrites returned_date with the time of this call.
C13_Step ==
    /\ \A r \in InFlight :
         (r.op = "return" /\ r.pc = "update" /\ Stepped(r)
            /\ rental_log[r.arg].returned_date # NULL) =>
             /\ resp'.op = "return" /\ resp'.status = 200
             /\ rental_log'[r.arg].returned_date = now'
             /\ resp'.data.returned_date = now'
    /\ (resp'.op = "return" /\ resp'.arg \in DOMAIN rental_log
          /\ rental_log[resp'.arg].user_id = resp'.user) => resp'.status = 200

C13_ReturnAgain == [][C13_Step]_vars

\* Row 1 came back at 0; u1 has returned it again and it now carries 1.
C13_Witness ==
    /\ resp.op = "return" /\ resp.status = 200 /\ resp.arg = 1
    /\ rental_log[1].user_id = "u1"
    /\ rental_log[1].checkout_date = 0
    /\ rental_log[1].returned_date = 1
    /\ \A i \in DOMAIN rental_log : i # 1 => rental_log[i].returned_date = NULL

\* ---------------------------------------------------------------------------
ItemIds(data) == { data[k].id : k \in DOMAIN data }

\* C15: the pending returns of u are exactly the rows of u with null
\* returned_date, oldest checkout first; the history of u is exactly the rows
\* of u, newest checkout first.
C15_Lists ==
    /\ (resp.op = "pending" /\ resp.status = 200) =>
         /\ ItemIds(resp.data) = { i \in DOMAIN rental_log :
                                     /\ rental_log[i].user_id = resp.user
                                     /\ rental_log[i].returned_date = NULL }
         /\ Len(resp.data) = Cardinality(ItemIds(resp.data))
         /\ \A k, l \in DOMAIN resp.data :
              k < l => resp.data[k].checkout_date <= resp.data[l].checkout_date
         /\ \A k \in DOMAIN resp.data :
              resp.data[k].checkout_date = rental_log[resp.data[k].id].checkout_date
    /\ (resp.op = "history" /\ resp.status = 200) =>
         /\ ItemIds(resp.data) = { i \in DOMAIN rental_log : rental_log[i].user_id = resp.user }
         /\ Len(resp.data) = Cardinality(ItemIds(resp.data))
         /\ \A k, l \in DOMAIN resp.data :
              k < l => resp.data[k].checkout_date >= resp.data[l].checkout_date
         /\ \A k \in DOMAIN resp.data :
              /\ resp.data[k].checkout_date = rental_log[resp.data[k].id].checkout_date
              /\ resp.data[k].returned_date = rental_log[resp.data[k].id].returned_date

\* u1 has brought back row 3: the pending returns of u1 are row 4 alone, while
\* u2 still holds row 2.
C15_Witness ==
    /\ resp.op = "pending" /\ resp.status = 200 /\ resp.user = "u1"
    /\ rental_log[3].returned_date # NULL
    /\ rental_log[2].returned_date = NULL
    /\ ItemIds(resp.data) = {4}

\* ---------------------------------------------------------------------------
\* C17: the row a checkout inserts carries the caller as user_id; no step
\* changes user_id or book_isbn of a row; returned_date goes from null to
\* non-null only in a return made by the row's user, and never back to null.
C17_Step ==
    /\ Len(rental_log') > Len(rental_log) =>
         \E r \in InFlight :
             /\ Stepped(r) /\ r.op = "rental"
             /\ rental_log'[Len(rental_log')].user_id = r.user
             /\ rental_log'[Len(rental_log')].book_isbn = r.arg
    /\ \A i \in DOMAIN rental_log :
         /\ i \in DOMAIN rental_log'
         /\ rental_log'[i].user_id = rental_log[i].user_id
         /\ rental_log'[i].book_isbn = rental_log[i].book_isbn
         /\ (rental_log[i].returned_date = NULL /\ rental_log'[i].returned_date # NULL) =>
                \E r \in InFlight :
                    /\ Stepped(r) /\ r.op = "return" /\ r.arg = i
                    /\ r.user = rental_log[i].user_id
         /\ rental_log[i].returned_date # NULL => rental_log'[i].returned_date # NULL

C17_BorrowerOnly == [][C17_Step]_vars

\* u2 has borrowed book 1 and brought it back.
C17_Witness ==
    /\ resp.op = "return" /\ resp.status = 200 /\ resp.user = "u2"
    /\ Len(rental_log) = 1
    /\ rental_log[1].user_id = "u2"
    /\ rental_log[1].returned_date # NULL

\* ---------------------------------------------------------------------------
\* C14: a delete of an existing author, publisher or book sets the isDeleted
\* flag of that row and changes nothing else in any table; no step removes a
\* row of author, publisher or book.
C14_Step ==
    /\ Len(author') >= Len(author)
    /\ Len(publisher') >= Len(publisher)
    /\ DOMAIN book \subseteq DOMAIN book'
    /\ (resp'.op = "author.delete" /\ resp'.status = 200) =>
         /\ author' = [author EXCEPT ![resp'.arg].isDeleted = TRUE]
         /\ publisher' = publisher /\ book' = book
         /\ rental_log' = rental_log /\ user' = user
    /\ (resp'.op = "publisher.delete" /\ resp'.status = 200) =>
         /\ publisher' = [publisher EXCEPT ![resp'.arg].isDeleted = TRUE]
         /\ author' = author /\ book' = book
         /\ rental_log' = rental_log /\ user' = user
    /\ (resp'.op = "book.delete" /\ resp'.status = 200) =>
         /\ book' = [book EXCEPT ![resp'.arg].isDeleted = TRUE]
         /\ author' = author /\ publisher' = publisher
         /\ rental_log' = rental_log /\ user' = user

C14_SoftDelete == [][C14_Step]_vars

\* Book 1 has been deleted while lent to u2: it is still in the table, flagged,
\* and the rental row of u2 still names it.
C14_Witness ==
    /\ resp.op = "book.delete" /\ resp.status = 200 /\ resp.arg = 1
    /\ 1 \in DOMAIN book /\ book[1].isDeleted /\ book[1].title = "t"
    /\ rental_log = <<LentRow>>

\* ---------------------------------------------------------------------------
\* C16: when a book is soft-deleted or created between book.count and
\* book.findMany, the list still answers current <= last_page, and a non-empty
\* list of books whenever a non-deleted book exists at the page query.
C16_Step ==
    resp'.op = "list" =>
        /\ resp'.data.current <= resp'.data.last_page
        /\ LiveBooks # {} => Len(resp'.data.books) > 0

C16_ListRace == [][C16_Step]_vars

====
